---------------------------- MODULE Spec2Model ----------------------------
(***************************************************************************)
(* The engagement session engine of chakravyuh-honeypot: the session       *)
(* store, the per-message flow of the two message endpoints, the callback  *)
(* dispatcher and the maintenance sweep.                                   *)
(*                                                                         *)
(* The endpoints are asyncio coroutines on one event loop: a request runs  *)
(* without interruption until it awaits, and the only await of the flow is *)
(* the callback's HTTP POST.  "running" is the request that holds the      *)
(* event loop, "pending" the requests suspended in that POST.  A handler   *)
(* is cut into its consecutive blocks (one action each); no other action   *)
(* is enabled while a request holds the event loop, so the blocks of one   *)
(* request interleave with another request only at the await.              *)
(*                                                                         *)
(* Sessions are Python objects: "heap" holds them by address, "sessions"   *)
(* is the store dict (id -> address).  An object that neither the store    *)
(* nor a request refers to is dropped from the heap, as by the collector.  *)
(***************************************************************************)
EXTENDS Integers, Sequences, FiniteSets, TLC

(***************************************************************************)
(* Bounds of the model.                                                    *)
(***************************************************************************)
MaxCeiling == 2      \* max_messages_per_session is configured in 1..MaxCeiling
MaxTime == 2         \* the clock runs over 0..MaxTime
MaxRequests == 3     \* message requests accepted in one run

(***************************************************************************)
(* Settings (app/core/config.py).  The turn ceiling and the idle timeout   *)
(* are configuration, drawn in Init; the callback threshold keeps its      *)
(* default.                                                                *)
(***************************************************************************)
min_messages_for_callback == 3
CeilingChoices == 1..MaxCeiling
TimeoutChoices == {1}

VARIABLES
    settings,   \* [max_messages_per_session, session_timeout_seconds, min_messages_for_callback]
    sessions,   \* SessionManager._sessions: session id -> address of its Session
    heap,       \* address -> Session object
    running,    \* the request that holds the event loop (Idle when none does)
    pending,    \* the requests suspended in send_callback's client.post
    posts,      \* address -> number of callback POSTs issued for that session
    now,        \* datetime.now(), in ticks
    accepted    \* number of message requests accepted so far

vars == <<settings, sessions, heap, running, pending, posts, now, accepted>>

None == "None"

(***************************************************************************)
(* Helpers on sequences and sets.                                          *)
(***************************************************************************)
Range(s) == {s[i] : i \in 1..Len(s)}

Contains(s, x) == \E i \in 1..Len(s) : s[i] = x

NoDuplicates(s) == \A i, j \in 1..Len(s) : s[i] = s[j] => i = j

RECURSIVE SetToSeq(_)
SetToSeq(S) ==
    IF S = {} THEN <<>>
    ELSE LET x == CHOOSE y \in S : TRUE IN <<x>> \o SetToSeq(S \ {x})

\* list(set(xs)): the distinct elements of xs, in the set's iteration order
\* (one fixed order here; nothing in the program reads the order).
ListOfSet(xs) == SetToSeq(Range(xs))

RECURSIVE SumSeq(_)
SumSeq(s) == IF s = <<>> THEN 0 ELSE Head(s) + SumSeq(Tail(s))

Min(a, b) == IF a < b THEN a ELSE b

(***************************************************************************)
(* Inbound message texts.  The regular expressions of the classifier, the  *)
(* extractor, the persona guard and the keyword scan are evaluated on a    *)
(* fixed catalogue of texts; the tables below are what Python's re gives   *)
(* for each text with the patterns of the source.                          *)
(***************************************************************************)
TEmpty == ""
THello == "Hello, how are you?"
TPrize == "You won Rs 50,000! Send UPI to winner@paytm"
TCall  == "Call 9876543210 or +91 8765432109"
TBot   == "are you a bot?"
TLonely == "I feel lonely"
TFull  == "Urgent: account 123456789012 blocked. Pay winner@paytm, call 9876543210, visit http://kyc-update.com/verify or mail help@sbi-support.org"

Catalogue == {TEmpty, THello, TPrize, TCall, TBot, TLonely, TFull}

\* ScamIntent, in the order of ScamDetector.SCAM_PATTERNS
IntentOrder == <<"financial_fraud", "phishing", "upi_scam", "fake_prize",
                 "job_scam", "romance_scam", "tech_support">>
Intents == Range(IntentOrder)
NONE == "none"

NoCues == [i \in Intents |-> 0]

\* Number of patterns of SCAM_PATTERNS[intent] that re.search finds in the text.
CueMatches(text) ==
    CASE text = TPrize  -> [NoCues EXCEPT !["upi_scam"] = 2, !["fake_prize"] = 1]
      [] text = TLonely -> [NoCues EXCEPT !["romance_scam"] = 1]
      [] text = TFull   -> [NoCues EXCEPT !["financial_fraud"] = 1, !["upi_scam"] = 2,
                                          !["fake_prize"] = 1, !["romance_scam"] = 1]
      [] OTHER -> NoCues

\* len(patterns): every category lists four patterns
PatternCount(intent) == 4

EmptyReport == [upiIds |-> <<>>, phoneNumbers |-> <<>>, urls |-> <<>>,
                bankDetails |-> <<>>, emailAddresses |-> <<>>]
IntelFields == {"upiIds", "phoneNumbers", "urls", "bankDetails", "emailAddresses"}

\* re.findall of the five extractor patterns (email matches already filtered
\* by _is_upi_id), before set(): findall keeps repeated matches.
RegexMatches(text) ==
    CASE text = TPrize -> [EmptyReport EXCEPT !.upiIds = <<"winner@paytm">>]
      [] text = TCall  -> [EmptyReport EXCEPT !.phoneNumbers = <<"9876543210", "8765432109">>]
      [] text = TFull  -> [upiIds |-> <<"winner@paytm", "help@sbi">>,
                           phoneNumbers |-> <<"9876543210">>,
                           urls |-> <<"http://kyc-update.com/verify">>,
                           bankDetails |-> <<"123456789012">>,
                           emailAddresses |-> <<"help@sbi-support.org">>]
      [] OTHER -> EmptyReport

\* persona_guard.is_suspicious
is_suspicious(message) == message = TBot


(***************************************************************************)
(* Session (app/services/session_manager.py).  created_at is left out: it  *)
(* is read only by get_duration, for the log.  The turns' timestamps are   *)
(* left out for the same reason.                                           *)
(***************************************************************************)
Session(session_id, t) ==
    [session_id |-> session_id,
     last_activity |-> t,
     message_count |-> 0,
     conversation_history |-> <<>>,
     scam_intents |-> <<>>,
     intelligence |-> EmptyReport,
     is_active |-> TRUE,
     termination_reason |-> None,
     confidence_scores |-> <<>>]

\* faulty variant: an empty text is counted but not recorded
add_message_dropping_empty(s, role, content, t) ==
    [s EXCEPT !.conversation_history =
                  IF content = "" THEN @ ELSE Append(@, [role |-> role, content |-> content]),
              !.message_count = @ + 1,
              !.last_activity = t]

\* faulty variant: a new turn makes the session active again
add_message_reviving(s, role, content, t) ==
    [s EXCEPT !.conversation_history = Append(@, [role |-> role, content |-> content]),
              !.message_count = @ + 1,
              !.last_activity = t,
              !.is_active = TRUE]

\* faulty variant: the turn is appended without refreshing last_activity
add_message_keeping_activity(s, role, content, t) ==
    [s EXCEPT !.conversation_history = Append(@, [role |-> role, content |-> content]),
              !.message_count = @ + 1]

add_message(s, role, content, t) ==
    [s EXCEPT !.conversation_history = Append(@, [role |-> role, content |-> content]),
              !.message_count = @ + 1,
              !.last_activity = t]

\* faulty variant: the sentinel is not skipped
add_scam_intent_keeping_sentinel(s, intent) ==
    IF ~Contains(s.scam_intents, intent)
    THEN [s EXCEPT !.scam_intents = Append(@, intent)]
    ELSE s

add_scam_intent(s, intent) ==
    IF ~Contains(s.scam_intents, intent) /\ intent # NONE
    THEN [s EXCEPT !.scam_intents = Append(@, intent)]
    ELSE s

\* for intent in scam_intents: session.add_scam_intent(intent)
RECURSIVE add_scam_intents(_, _)
add_scam_intents(s, intents) ==
    IF intents = <<>> THEN s
    ELSE add_scam_intents(add_scam_intent(s, Head(intents)), Tail(intents))

add_confidence_score(s, score) ==
    [s EXCEPT !.confidence_scores = Append(@, score)]

is_expired(s, t, cfg) == t - s.last_activity > cfg.session_timeout_seconds

\* faulty variant: the timeout is tested before the ceiling
should_terminate_timeout_first(s, t, cfg) ==
    IF is_expired(s, t, cfg)
    THEN <<TRUE, "session_timeout">>
    ELSE IF s.message_count >= cfg.max_messages_per_session
    THEN <<TRUE, "max_messages_reached">>
    ELSE IF ~s.is_active
    THEN <<TRUE, IF s.termination_reason # None THEN s.termination_reason
                 ELSE "manually_terminated">>
    ELSE <<FALSE, None>>

\* faulty variant: the ceiling must be exceeded, not reached
should_terminate_above_ceiling(s, t, cfg) ==
    IF s.message_count > cfg.max_messages_per_session
    THEN <<TRUE, "max_messages_reached">>
    ELSE IF is_expired(s, t, cfg)
    THEN <<TRUE, "session_timeout">>
    ELSE IF ~s.is_active
    THEN <<TRUE, IF s.termination_reason # None THEN s.termination_reason
                 ELSE "manually_terminated">>
    ELSE <<FALSE, None>>

\* <<should_terminate, termination_reason>>
should_terminate(s, t, cfg) ==
    IF s.message_count >= cfg.max_messages_per_session
    THEN <<TRUE, "max_messages_reached">>
    ELSE IF is_expired(s, t, cfg)
    THEN <<TRUE, "session_timeout">>
    ELSE IF ~s.is_active
    THEN <<TRUE, IF s.termination_reason # None THEN s.termination_reason
                 ELSE "manually_terminated">>
    ELSE <<FALSE, None>>

\* the reasons should_terminate names (session_manager.py 59, 62, 65)
TerminationReasons == {"max_messages_reached", "session_timeout", "manually_terminated"}

\* faulty variant: the reason is not recorded
terminate_without_reason(s, reason) ==
    [s EXCEPT !.is_active = FALSE]

terminate(s, reason) ==
    [s EXCEPT !.is_active = FALSE, !.termination_reason = reason]

(***************************************************************************)
(* ScamDetector.detect.  Confidence is a float in the source; here it is   *)
(* the exact rational, scaled by ConfidenceScale (every mean of quarters   *)
(* over at most seven categories, times 1.2, is then an integer).          *)
(***************************************************************************)
ConfidenceScale == 4 * 2100

detected_intents(matches) ==
    SelectSeq(IntentOrder, LAMBDA i : matches[i] > 0)

\* intent_scores[intent] = matches / len(patterns)
intent_score(matches, intent) ==
    (matches[intent] * ConfidenceScale) \div PatternCount(intent)

\* faulty variant: an empty list when nothing matches
detect_matches_empty_list(matches) ==
    LET found == detected_intents(matches)
        scores == [k \in 1..Len(found) |-> intent_score(matches, found[k])]
        mean == IF found = <<>> THEN 0 ELSE SumSeq(scores) \div Len(found)
        confidence == IF Len(found) > 1
                      THEN Min((mean * 12) \div 10, ConfidenceScale)
                      ELSE mean
    IN  [is_scam |-> confidence * 10 > 3 * ConfidenceScale,
         scam_intents |-> found,
         confidence |-> confidence]

\* faulty variant: the mean is taken over all categories
detect_matches_mean_over_all(matches) ==
    LET found == detected_intents(matches)
        scores == [k \in 1..Len(found) |-> intent_score(matches, found[k])]
        mean == SumSeq(scores) \div Len(IntentOrder)
        confidence == IF Len(found) > 1
                      THEN Min((mean * 12) \div 10, ConfidenceScale)
                      ELSE mean
    IN  IF found = <<>>
        THEN [is_scam |-> FALSE, scam_intents |-> <<NONE>>, confidence |-> 0]
        ELSE [is_scam |-> confidence * 10 > 3 * ConfidenceScale,
              scam_intents |-> found,
              confidence |-> confidence]

\* detect from line 66 on; matches[intent] is the count of the inner loop
detect_matches(matches) ==
    LET found == detected_intents(matches)
        scores == [k \in 1..Len(found) |-> intent_score(matches, found[k])]
        mean == SumSeq(scores) \div Len(found)
        confidence == IF Len(found) > 1
                      THEN Min((mean * 12) \div 10, ConfidenceScale)
                      ELSE mean
    IN  IF found = <<>>
        THEN [is_scam |-> FALSE, scam_intents |-> <<NONE>>, confidence |-> 0]
        ELSE [is_scam |-> confidence * 10 > 3 * ConfidenceScale,
              scam_intents |-> found,
              confidence |-> confidence]

detect(message) == detect_matches(CueMatches(message))

(***************************************************************************)
(* IntelligenceExtractor.extract.  llm is what _extract_with_llm gave: a   *)
(* dict of four lists of strings.  The all-empty dict stands for every     *)
(* outcome that adds nothing (LLM_AVAILABLE false, an exception caught at  *)
(* line 76, a response that is not JSON).                                  *)
(***************************************************************************)
NoLlmIntel == [upiIds |-> <<>>, phoneNumbers |-> <<>>, urls |-> <<>>, bankDetails |-> <<>>]

\* An enrichment answer that repeats regex values, adds a new handle and
\* holds an empty string.
LlmIntelNoisy == [upiIds |-> <<"winner@paytm", "scammer@ybl", "">>,
                  phoneNumbers |-> <<"9876543210", "9876543210">>,
                  urls |-> <<>>,
                  bankDetails |-> <<"">>]

LlmIntelChoices == {NoLlmIntel, LlmIntelNoisy}

regex_report(message) ==
    [f \in IntelFields |-> ListOfSet(RegexMatches(message)[f])]

extract(message, llm) ==
    LET report == regex_report(message)
        enriched == [report EXCEPT !.upiIds = @ \o llm.upiIds,
                                   !.phoneNumbers = @ \o llm.phoneNumbers,
                                   !.urls = @ \o llm.urls,
                                   !.bankDetails = @ \o llm.bankDetails]
    IN  [f \in IntelFields |-> ListOfSet(enriched[f])]

\* faulty variant: the report replaces the session's sets
merge_intelligence_overwriting(s, report, endpoint) ==
    [s EXCEPT !.intelligence = [f \in IntelFields |-> ListOfSet(report[f])]]

\* faulty variant: the extends without the "Deduplicate" block
merge_intelligence_without_dedupe(s, report, endpoint) ==
    LET once == [f \in IntelFields |-> s.intelligence[f] \o report[f]]
    IN  [s EXCEPT !.intelligence =
            IF endpoint = "honeypot"
            THEN [f \in IntelFields |-> once[f] \o report[f]]
            ELSE once]

\* routes.py: the extends and the "Deduplicate" block of the two handlers.
\* hackathon_honeypot extends twice (lines 83-87 and 93-97), process_message once.
merge_intelligence(s, report, endpoint) ==
    LET once == [f \in IntelFields |-> s.intelligence[f] \o report[f]]
        extended == IF endpoint = "honeypot"
                    THEN [f \in IntelFields |-> once[f] \o report[f]]
                    ELSE once
    IN  [s EXCEPT !.intelligence = [f \in IntelFields |-> ListOfSet(extended[f])]]

(***************************************************************************)
(* ReplyGenerator (app/services/reply_generator.py).  The random source is *)
(* an input: rnd.pick indexes random.choice, rnd.coin1 and rnd.coin2 are   *)
(* the outcomes of the two "random.random() < p" tests in program order.   *)
(***************************************************************************)
INITIAL_RESPONSES == <<
    "Hello! Thanks for reaching out. What is this about?",
    "Hi there! I got your message. Can you tell me more?",
    "Hey! I'm interested. Please explain more.",
    "Hello! This sounds interesting. What do I need to do?",
    "Arre, thoda samajh nahi aa raha. Batao zara.">>

CURIOUS_RESPONSES == <<
    "That sounds interesting. Can you provide more details?",
    "I'm not sure I understand. Can you explain further?",
    "This is new to me. How does it work exactly?",
    "Could you tell me more about this?",
    "Thoda clearly samjhaoge kya?">>

FINANCIAL_RESPONSES == <<
    "What payment method do you accept?",
    "How much do I need to pay?",
    "Can you send me your payment details?",
    "Is there a processing fee involved?",
    "UPI ya bank details share karoge?">>

PRIZE_RESPONSES == <<
    "Really? I won something? That's amazing!",
    "What prize did I win? How do I claim it?",
    "This is exciting! What do I need to do to get my prize?",
    "I didn't enter any contest. Are you sure it's me?">>

JOB_RESPONSES == <<
    "This job sounds perfect! What are the details?",
    "I'm looking for work. What's the salary?",
    "Is this full-time or part-time? What are the requirements?",
    "When can I start? Do I need to pay anything upfront?">>

STALLING_RESPONSES == <<
    "Let me check my account and get back to you.",
    "I need to discuss this with my family first.",
    "Can you give me some time to think about it?",
    "I'm at work right now. Can we continue this later?">>

ENGAGEMENT_RESPONSES == <<
    "Okay, I'm ready. What should I do next?",
    "I understand. Please guide me through the process.",
    "I'm interested in proceeding. What's the next step?",
    "Sounds good. How do we move forward?">>

VERY_LATE_RESPONSES == <<
    "I think I need more time to consider this.",
    "Let me verify this information first.",
    "I'll get back to you after checking.",
    "This is taking longer than I expected. Can we pause?">>

DEFLECTIONS == <<
    "Arre, aise kyun pooch rahe ho?",
    "Main samjha nahi, kya matlab?",
    "Aap kaam ki baat batao na.",
    "Mujhe thoda odd lag raha hai ye question.">>

GOODBYES == <<
    "Accha, main thoda check karke batata hoon.",
    "Let me think about it and get back to you.",
    "Abhi thoda busy hoon, baad mein baat karte hain.">>

NEUTRAL_GREETING == "Hello. How can I help you?"

\* random.choice(pool)
Choice(pool, pick) == pool[((pick - 1) % Len(pool)) + 1]

\* faulty variant: the payment-probing branch does not look at the intents
_fallback_reply_always_probing(scam_intents, message_count, rnd) ==
    IF message_count = 0 THEN Choice(INITIAL_RESPONSES, rnd.pick)
    ELSE IF message_count <= 3 THEN
        IF Contains(scam_intents, "fake_prize") THEN Choice(PRIZE_RESPONSES, rnd.pick)
        ELSE IF Contains(scam_intents, "job_scam") THEN Choice(JOB_RESPONSES, rnd.pick)
        ELSE Choice(CURIOUS_RESPONSES, rnd.pick)
    ELSE IF message_count <= 8 THEN
        IF rnd.coin1 THEN Choice(FINANCIAL_RESPONSES, rnd.pick)
        ELSE IF rnd.coin2 THEN Choice(CURIOUS_RESPONSES, rnd.pick)
        ELSE Choice(ENGAGEMENT_RESPONSES, rnd.pick)
    ELSE IF message_count <= 15 THEN
        IF rnd.coin1 THEN Choice(STALLING_RESPONSES, rnd.pick)
        ELSE Choice(FINANCIAL_RESPONSES, rnd.pick)
    ELSE Choice(VERY_LATE_RESPONSES, rnd.pick)

\* faulty variant: job-scam is tested before fake-prize
_fallback_reply_job_first(scam_intents, message_count, rnd) ==
    IF message_count = 0 THEN Choice(INITIAL_RESPONSES, rnd.pick)
    ELSE IF message_count <= 3 THEN
        IF Contains(scam_intents, "job_scam") THEN Choice(JOB_RESPONSES, rnd.pick)
        ELSE IF Contains(scam_intents, "fake_prize") THEN Choice(PRIZE_RESPONSES, rnd.pick)
        ELSE Choice(CURIOUS_RESPONSES, rnd.pick)
    ELSE IF message_count <= 8 THEN
        LET financial == \E i \in {"financial_fraud", "upi_scam", "fake_prize"} :
                            Contains(scam_intents, i)
        IN  IF financial /\ rnd.coin1 THEN Choice(FINANCIAL_RESPONSES, rnd.pick)
            ELSE LET coin == IF financial THEN rnd.coin2 ELSE rnd.coin1
                 IN  IF coin THEN Choice(CURIOUS_RESPONSES, rnd.pick)
                     ELSE Choice(ENGAGEMENT_RESPONSES, rnd.pick)
    ELSE IF message_count <= 15 THEN
        IF rnd.coin1 THEN Choice(STALLING_RESPONSES, rnd.pick)
        ELSE Choice(FINANCIAL_RESPONSES, rnd.pick)
    ELSE Choice(VERY_LATE_RESPONSES, rnd.pick)

\* lines 162-210
_fallback_reply(scam_intents, message_count, rnd) ==
    IF message_count = 0 THEN Choice(INITIAL_RESPONSES, rnd.pick)
    ELSE IF message_count <= 3 THEN
        IF Contains(scam_intents, "fake_prize") THEN Choice(PRIZE_RESPONSES, rnd.pick)
        ELSE IF Contains(scam_intents, "job_scam") THEN Choice(JOB_RESPONSES, rnd.pick)
        ELSE Choice(CURIOUS_RESPONSES, rnd.pick)
    ELSE IF message_count <= 8 THEN
        LET financial == \E i \in {"financial_fraud", "upi_scam", "fake_prize"} :
                            Contains(scam_intents, i)
        IN  IF financial /\ rnd.coin1 THEN Choice(FINANCIAL_RESPONSES, rnd.pick)
            ELSE LET coin == IF financial THEN rnd.coin2 ELSE rnd.coin1
                 IN  IF coin THEN Choice(CURIOUS_RESPONSES, rnd.pick)
                     ELSE Choice(ENGAGEMENT_RESPONSES, rnd.pick)
    ELSE IF message_count <= 15 THEN
        IF rnd.coin1 THEN Choice(STALLING_RESPONSES, rnd.pick)
        ELSE Choice(FINANCIAL_RESPONSES, rnd.pick)
    ELSE Choice(VERY_LATE_RESPONSES, rnd.pick)

\* What generate_engagement_reply can give.  "" stands for every outcome
\* without a string (the import failed, the call raised).
LlmReplyGood == "Haan ji, batao kya karna hai?"
LlmReplyShort == "ok"
LlmReplyThree == "hmm"
LlmReplyChoices == {"", LlmReplyGood}

\* len(llm_reply.strip())
StrippedLength(reply) ==
    CASE reply = "" -> 0
      [] reply = LlmReplyShort -> 2
      [] reply = LlmReplyThree -> 3
      [] OTHER -> 29

\* faulty variant: the generative reply is tried before the persona guard
generate_reply_llm_first(message, scam_intents, message_count, has_session, llm_reply, rnd) ==
    IF has_session /\ llm_reply # "" /\ StrippedLength(llm_reply) > 2 THEN llm_reply
    ELSE IF is_suspicious(message) THEN Choice(DEFLECTIONS, rnd.pick)
    ELSE _fallback_reply(scam_intents, message_count, rnd)

\* faulty variant: a reply of two characters is accepted
generate_reply_accepting_short(message, scam_intents, message_count, has_session, llm_reply, rnd) ==
    IF is_suspicious(message) THEN Choice(DEFLECTIONS, rnd.pick)
    ELSE IF has_session /\ llm_reply # "" /\ StrippedLength(llm_reply) > 1 THEN llm_reply
    ELSE _fallback_reply(scam_intents, message_count, rnd)

\* session is None for process_message, which passes no session.
generate_reply(message, scam_intents, message_count, has_session, llm_reply, rnd) ==
    IF is_suspicious(message) THEN Choice(DEFLECTIONS, rnd.pick)
    ELSE IF has_session /\ llm_reply # "" /\ StrippedLength(llm_reply) > 2 THEN llm_reply
    ELSE _fallback_reply(scam_intents, message_count, rnd)

\* faulty variant: the terminating branch answers like an opening turn
generate_goodbye_contextual(rnd) == Choice(INITIAL_RESPONSES, rnd.pick)

generate_goodbye(rnd) == Choice(GOODBYES, rnd.pick)

(***************************************************************************)
(* CallbackService (app/services/callback_service.py).                     *)
(***************************************************************************)
suspicious_terms == <<"urgent", "prize", "won", "lottery", "claim", "verify", "account",
                      "suspended", "blocked", "bank", "upi", "transfer", "payment">>

\* two turns for _extract_keywords: all thirteen terms, some in upper case,
\* and seven terms that TFull lacks
TAllTerms == "URGENT: you WON a Lottery PRIZE! Claim it, verify your account (suspended, blocked) by bank UPI transfer payment"
TSeven == "Lottery claim is suspended until the bank transfer payment; the prize waits"

\* {term : term in content.lower()}, for the texts and replies of the model
TermsIn(content) ==
    CASE content = TPrize -> {"won", "upi"}
      [] content = TAllTerms -> Range(suspicious_terms)
      [] content = TSeven -> {"prize", "lottery", "claim", "suspended", "bank",
                              "transfer", "payment"}
      [] content = TFull -> {"urgent", "verify", "account", "blocked"}
      [] content = FINANCIAL_RESPONSES[1] -> {"payment"}
      [] content = FINANCIAL_RESPONSES[3] -> {"payment"}
      [] content = FINANCIAL_RESPONSES[5] -> {"bank", "upi"}
      [] content = PRIZE_RESPONSES[1] -> {"won"}
      [] content = PRIZE_RESPONSES[2] -> {"prize", "claim"}
      [] content = PRIZE_RESPONSES[3] -> {"prize"}
      [] content = STALLING_RESPONSES[1] -> {"account"}
      [] content = VERY_LATE_RESPONSES[2] -> {"verify"}
      [] OTHER -> {}

RECURSIVE scan_keywords(_, _)
scan_keywords(history, keywords) ==
    IF history = <<>> THEN keywords
    ELSE LET found == SelectSeq(suspicious_terms,
                        LAMBDA term : term \in TermsIn(Head(history).content)
                                      /\ ~Contains(keywords, term))
         IN  scan_keywords(Tail(history), keywords \o found)

\* faulty variant: the list is returned whole
_extract_keywords_untruncated(s) ==
    scan_keywords(s.conversation_history, <<>>)

_extract_keywords(s) ==
    LET keywords == scan_keywords(s.conversation_history, <<>>)
    IN  SubSeq(keywords, 1, Min(10, Len(keywords)))

\* the three numbers and the intent list the agentNotes sentence is built from
_generate_summary(s) ==
    [intents |-> s.scam_intents,
     message_count |-> s.message_count,
     intel_count |-> Len(s.intelligence.upiIds) + Len(s.intelligence.phoneNumbers)
                     + Len(s.intelligence.urls) + Len(s.intelligence.bankDetails)]

\* faulty variants: one of the two gating tests is missing
callback_gate_count_only(s, cfg) ==
    s.message_count >= cfg.min_messages_for_callback

callback_gate_intents_only(s, cfg) ==
    Len(s.scam_intents) # 0

\* send_callback's two gating tests (lines 30-38)
callback_gate(s, cfg) ==
    /\ Len(s.scam_intents) # 0
    /\ s.message_count >= cfg.min_messages_for_callback

\* faulty variant: the e-mail addresses are forwarded with the payment handles
HackathonCallbackPayload_forwarding_emails(s) ==
    [sessionId |-> s.session_id,
     scamDetected |-> TRUE,
     totalMessagesExchanged |-> s.message_count,
     extractedIntelligence |->
        [bankAccounts |-> s.intelligence.bankDetails,
         upiIds |-> s.intelligence.upiIds \o s.intelligence.emailAddresses,
         phishingLinks |-> s.intelligence.urls,
         phoneNumbers |-> s.intelligence.phoneNumbers,
         suspiciousKeywords |-> _extract_keywords(s)],
     agentNotes |-> _generate_summary(s)]

\* lines 42-54
HackathonCallbackPayload(s) ==
    [sessionId |-> s.session_id,
     scamDetected |-> TRUE,
     totalMessagesExchanged |-> s.message_count,
     extractedIntelligence |->
        [bankAccounts |-> s.intelligence.bankDetails,
         upiIds |-> s.intelligence.upiIds,
         phishingLinks |-> s.intelligence.urls,
         phoneNumbers |-> s.intelligence.phoneNumbers,
         suspiciousKeywords |-> _extract_keywords(s)],
     agentNotes |-> _generate_summary(s)]

(***************************************************************************)
(* Requests.  A request is the frame of one handler call: its position pc  *)
(* and its locals.                                                         *)
(*   checked     after should_terminate()            (routes.py 66-107)    *)
(*   terminated  after session.terminate()           (110-112)             *)
(*   awaiting    suspended in client.post            (callback 56-62)      *)
(*   sent        send_callback has returned          (115)                 *)
(*   replying    reply chosen, session deleted if terminating (116-129)    *)
(*   respond     reply appended to the history       (134)                 *)
(* Both handlers run the same code from the branch on should_terminate     *)
(* on, and read neither the inbound text, the report nor the branch        *)
(* condition again (process_message only copies them into its response),   *)
(* so a frame past that branch keeps only its session, its reply and, for  *)
(* a terminating request, what the callback gave.                          *)
(***************************************************************************)
SessionIds == {"s1"}
Endpoints == {"honeypot", "message"}
InboundTexts == {TEmpty, TFull}
Objs == 1..MaxRequests
\* the draws of the random source that a run may see
Picks == {1}
Rnd == [pick : Picks, coin1 : BOOLEAN, coin2 : BOOLEAN]
CallbackOutcomes == {"200", "non200", "timeout", "error"}
\* send_callback returned at one of its two gating tests
Skipped == "skipped"

\* callback_result is how send_callback ended for this request ("" before);
\* the handlers drop it, it is kept for the properties.  So are idle, the
\* session's idle time when the request fetched it, and elapsed, the time the
\* request spent between appending the inbound turn and should_terminate,
\* and turn_index, the message_count argument handed to generate_reply.
Idle == [pc |-> "idle", endpoint |-> "", sid |-> "", text |-> "", obj |-> 0,
         intel_report |-> EmptyReport, should_terminate |-> FALSE,
         termination_reason |-> None, reply |-> "", payload |-> <<>>,
         callback_result |-> "", idle |-> 0, elapsed |-> 0, turn_index |-> 0]

Restrict(f, S) == [x \in S |-> f[x]]

\* the addresses still referred to by the store or by a request
Reachable(store, frames) ==
    {store[sid] : sid \in DOMAIN store} \cup {f.obj : f \in frames}

\* faulty variant: the session stays in the store
delete_session_kept(store, sid) == store

\* faulty variant: the whole store is emptied
delete_session_clearing(store, sid) == <<>>

\* SessionManager.delete_session
delete_session(store, sid) ==
    IF sid \in DOMAIN store THEN Restrict(store, DOMAIN store \ {sid}) ELSE store

\* faulty variant: terminated sessions are never swept
cleanup_expired_sessions_active_only(store, objects, t, cfg) ==
    LET expired == {sid \in DOMAIN store : /\ is_expired(objects[store[sid]], t, cfg)
                                           /\ objects[store[sid]].is_active}
    IN  Restrict(store, DOMAIN store \ expired)

\* SessionManager.cleanup_expired_sessions
cleanup_expired_sessions(store, objects, t, cfg) ==
    LET expired == {sid \in DOMAIN store : is_expired(objects[store[sid]], t, cfg)}
    IN  Restrict(store, DOMAIN store \ expired)

\* SessionManager.get_active_session_count
get_active_session_count(store) == Cardinality(DOMAIN store)

Init ==
    /\ settings \in [max_messages_per_session : CeilingChoices,
                     session_timeout_seconds : TimeoutChoices,
                     min_messages_for_callback : {min_messages_for_callback}]
    /\ sessions = <<>>
    /\ heap = <<>>
    /\ running = Idle
    /\ pending = {}
    /\ posts = <<>>
    /\ now = 0
    /\ accepted = 0

(***************************************************************************)
(* routes.py 66-107 (hackathon_honeypot) and 160-192 (process_message):    *)
(* get_or_create_session, the inbound turn, detection, extraction, the     *)
(* merge, and the termination check.  The handler does not give up the     *)
(* event loop here, but extract may block in the enrichment call           *)
(* (intelligence_extractor.py 119-125): elapsed is the time that passes    *)
(* between add_message and should_terminate.                               *)
(***************************************************************************)
Handle(endpoint, sid, text, llm, elapsed) ==
    /\ running = Idle
    /\ now + elapsed <= MaxTime
    /\ now' = now + elapsed
    /\ LET known == sid \in DOMAIN sessions
           obj == IF known THEN sessions[sid]
                  ELSE CHOOSE a \in Objs \ DOMAIN heap :
                         \A b \in Objs \ DOMAIN heap : a <= b
           s0 == IF known THEN heap[obj] ELSE Session(sid, now)
           s1 == add_message(s0, "scammer", text, now)
           d == detect(text)
           s2 == add_confidence_score(add_scam_intents(s1, d.scam_intents), d.confidence)
           report == extract(text, llm)
           s3 == merge_intelligence(s2, report, endpoint)
           st == should_terminate(s3, now + elapsed, settings)
       IN  /\ sessions' = [x \in DOMAIN sessions \cup {sid} |->
                              IF x = sid THEN obj ELSE sessions[x]]
           /\ heap' = [a \in DOMAIN heap \cup {obj} |-> IF a = obj THEN s3 ELSE heap[a]]
           /\ posts' = [a \in DOMAIN heap \cup {obj} |->
                           IF a \in DOMAIN posts THEN posts[a] ELSE 0]
           /\ running' = [Idle EXCEPT !.pc = "checked", !.endpoint = endpoint,
                                      !.sid = sid, !.text = text, !.obj = obj,
                                      !.intel_report = report,
                                      !.should_terminate = st[1],
                                      !.termination_reason = st[2],
                                      !.idle = now - s0.last_activity,
                                      !.elapsed = elapsed]
    /\ UNCHANGED <<settings, pending>>

\* the handler when detection and extraction take no time to speak of
Receive(endpoint, sid, text, llm) == Handle(endpoint, sid, text, llm, 0)

\* a request is accepted while the run's budget of requests lasts
Begin(endpoint, sid, text, llm) ==
    /\ accepted < MaxRequests
    /\ accepted' = accepted + 1
    /\ Receive(endpoint, sid, text, llm)

\* routes.py 59-63: no body, or a body with neither sessionId nor message
EmptyBody ==
    /\ running = Idle
    /\ running' = [Idle EXCEPT !.pc = "respond", !.endpoint = "honeypot",
                               !.reply = NEUTRAL_GREETING]
    /\ UNCHANGED <<settings, sessions, heap, pending, posts, now, accepted>>

\* routes.py 59-70: a body with a sessionId and no message.  The session is
\* fetched or created (67), then request.message.text raises AttributeError
\* (70) and the request ends with a server error.
MissingMessage(sid) ==
    /\ running = Idle
    /\ accepted < MaxRequests
    /\ accepted' = accepted + 1
    /\ LET known == sid \in DOMAIN sessions
           obj == IF known THEN sessions[sid]
                  ELSE CHOOSE a \in Objs \ DOMAIN heap :
                         \A b \in Objs \ DOMAIN heap : a <= b
       IN  /\ sessions' = [x \in DOMAIN sessions \cup {sid} |->
                              IF x = sid THEN obj ELSE sessions[x]]
           /\ heap' = [a \in DOMAIN heap \cup {obj} |->
                          IF a \in DOMAIN heap THEN heap[a] ELSE Session(sid, now)]
           /\ posts' = [a \in DOMAIN heap \cup {obj} |->
                           IF a \in DOMAIN posts THEN posts[a] ELSE 0]
    /\ UNCHANGED <<settings, running, pending, now>>

\* routes.py 110-112: the goodbye is chosen and the session terminated
Terminate(rnd) ==
    /\ running.pc = "checked"
    /\ running.should_terminate
    /\ heap' = [heap EXCEPT ![running.obj] = terminate(@, running.termination_reason)]
    /\ running' = [Idle EXCEPT !.pc = "terminated", !.sid = running.sid,
                               !.obj = running.obj, !.reply = generate_goodbye(rnd)]
    /\ UNCHANGED <<settings, sessions, pending, posts, now, accepted>>

\* callback_service.py 30-62: the gate; then the payload is built and POSTed,
\* and the request is suspended until the POST ends
SendCallback ==
    /\ running.pc = "terminated"
    /\ IF callback_gate(heap[running.obj], settings)
       THEN /\ pending' = pending \cup
                  {[running EXCEPT !.pc = "awaiting",
                        !.payload = <<HackathonCallbackPayload(heap[running.obj])>>]}
            /\ posts' = [posts EXCEPT ![running.obj] = @ + 1]
            /\ running' = Idle
       ELSE /\ running' = [running EXCEPT !.pc = "sent", !.callback_result = Skipped]
            /\ UNCHANGED <<pending, posts, accepted>>
    /\ UNCHANGED <<settings, sessions, heap, now, accepted>>

\* callback_service.py 62-79: the POST ends (status 200, another status, a
\* timeout, any other exception) and the request takes the event loop again.
\* send_callback logs the outcome and returns a flag that the handlers drop.
CallbackResult(frame, outcome) ==
    /\ running = Idle
    /\ frame \in pending
    /\ pending' = pending \ {frame}
    /\ outcome \in CallbackOutcomes
    /\ running' = [frame EXCEPT !.pc = "sent", !.callback_result = outcome]
    /\ UNCHANGED <<settings, sessions, heap, posts, now, accepted>>

\* faulty variant: the session is deleted only when the callback was delivered
DeleteSession_on_success ==
    /\ running.pc = "sent"
    /\ sessions' = IF running.callback_result = "200"
                   THEN delete_session(sessions, running.sid)
                   ELSE sessions
    /\ running' = [running EXCEPT !.pc = "replying", !.callback_result = ""]
    /\ UNCHANGED <<settings, heap, pending, posts, now, accepted>>

\* routes.py 116-119: log_summary (reads only), delete_session
DeleteSession ==
    /\ running.pc = "sent"
    /\ sessions' = delete_session(sessions, running.sid)
    /\ running' = [running EXCEPT !.pc = "replying", !.callback_result = ""]
    /\ UNCHANGED <<settings, heap, pending, posts, now, accepted>>

\* faulty variant: the current message is counted in the index
GenerateReply_counting_current(llm_reply, rnd) ==
    /\ running.pc = "checked"
    /\ ~running.should_terminate
    /\ LET s == heap[running.obj]
           message_count == s.message_count
       IN  running' = [Idle EXCEPT !.pc = "replying", !.sid = running.sid,
                          !.obj = running.obj,
                          !.turn_index = message_count,
                          !.reply = generate_reply(running.text, s.scam_intents,
                                        message_count,
                                        running.endpoint = "honeypot", llm_reply, rnd)]
    /\ UNCHANGED <<settings, sessions, heap, pending, posts, now, accepted>>

\* routes.py 120-129 / 206-211: the contextual reply
GenerateReply(llm_reply, rnd) ==
    /\ running.pc = "checked"
    /\ ~running.should_terminate
    /\ LET s == heap[running.obj]
           message_count == s.message_count - 1
       IN  running' = [Idle EXCEPT !.pc = "replying", !.sid = running.sid,
                          !.obj = running.obj,
                          !.turn_index = message_count,
                          !.reply = generate_reply(running.text, s.scam_intents,
                                        message_count,
                                        running.endpoint = "honeypot", llm_reply, rnd)]
    /\ UNCHANGED <<settings, sessions, heap, pending, posts, now, accepted>>

\* faulty variant: the reply is returned without being recorded
AddReply_unrecorded ==
    /\ running.pc = "replying"
    /\ running' = [running EXCEPT !.pc = "respond"]
    /\ UNCHANGED <<settings, sessions, heap, pending, posts, now, accepted>>

\* routes.py 134 / 215: session.add_message("agent", reply)
AddReply ==
    /\ running.pc = "replying"
    /\ heap' = [heap EXCEPT ![running.obj] = add_message(@, "agent", running.reply, now)]
    /\ running' = [running EXCEPT !.pc = "respond"]
    /\ UNCHANGED <<settings, sessions, pending, posts, now, accepted>>

\* routes.py 137-140 / 218-234: the response is returned and the frame is gone
Return ==
    /\ running.pc = "respond"
    /\ running' = Idle
    /\ LET live == Reachable(sessions, pending) \cap DOMAIN heap
       IN  /\ heap' = Restrict(heap, live)
           /\ posts' = Restrict(posts, live)
    /\ UNCHANGED <<settings, sessions, pending, now, accepted>>

\* routes.py 245-252: POST /v1/cleanup
Cleanup ==
    /\ running = Idle
    /\ sessions' = cleanup_expired_sessions(sessions, heap, now, settings)
    /\ LET live == Reachable(sessions', pending) \cap DOMAIN heap
       IN  /\ heap' = Restrict(heap, live)
           /\ posts' = Restrict(posts, live)
    /\ UNCHANGED <<settings, running, pending, now, accepted>>

\* time passes while no request holds the event loop
Tick ==
    /\ running = Idle
    /\ now < MaxTime
    /\ now' = now + 1
    /\ UNCHANGED <<settings, sessions, heap, running, pending, posts, accepted>>

Next ==
    \/ \E e \in Endpoints, sid \in SessionIds, text \in InboundTexts,
          llm \in LlmIntelChoices : Begin(e, sid, text, llm)
    \/ EmptyBody
    \/ \E sid \in SessionIds : MissingMessage(sid)
    \/ \E rnd \in Rnd : Terminate(rnd)
    \/ SendCallback
    \/ \E frame \in pending, outcome \in CallbackOutcomes : CallbackResult(frame, outcome)
    \/ DeleteSession
    \/ \E llm_reply \in LlmReplyChoices, rnd \in Rnd : GenerateReply(llm_reply, rnd)
    \/ AddReply
    \/ Return
    \/ Cleanup
    \/ Tick

Spec == Init /\ [][Next]_vars

(***************************************************************************)
(* One request at a time: a request (a message or a cleanup) is accepted   *)
(* only when no other request is in progress or suspended.                 *)
(***************************************************************************)
SerialNext ==
    \/ \E e \in Endpoints, sid \in SessionIds, text \in InboundTexts,
          llm \in LlmIntelChoices : pending = {} /\ Begin(e, sid, text, llm)
    \/ pending = {} /\ EmptyBody
    \/ \E sid \in SessionIds : pending = {} /\ MissingMessage(sid)
    \/ \E rnd \in Rnd : Terminate(rnd)
    \/ SendCallback
    \/ \E frame \in pending, outcome \in CallbackOutcomes : CallbackResult(frame, outcome)
    \/ DeleteSession
    \/ \E llm_reply \in LlmReplyChoices, rnd \in Rnd : GenerateReply(llm_reply, rnd)
    \/ AddReply
    \/ Return
    \/ pending = {} /\ Cleanup
    \/ Tick

SerialSpec == Init /\ [][SerialNext]_vars

(***************************************************************************)
(* The Session and SessionManager methods called directly, in any order,   *)
(* on one session created by create_session (as the unit tests of          *)
(* tests/test_session_manager.py do).  running is the frame of the last    *)
(* call: its name in pc, its argument in text or termination_reason, and,  *)
(* for should_terminate, what it returned.  The caller keeps its reference *)
(* to the session, so the object outlives its removal from the store.      *)
(***************************************************************************)
MaxTurns == 3        \* add_message calls on the session

Roles == {"scammer", "agent"}
\* texts whose detection results are merged: none, two labels, four labels
DetectedTexts == {TEmpty, TPrize, TFull}
\* reasons an outside caller passes to terminate
ManualReasons == {"user_requested", "manually_terminated"}

Called(method) == [Idle EXCEPT !.pc = method, !.sid = "s1", !.obj = 1]

SessionInit ==
    /\ settings \in [max_messages_per_session : CeilingChoices,
                     session_timeout_seconds : TimeoutChoices,
                     min_messages_for_callback : {min_messages_for_callback}]
    /\ sessions = [sid \in {"s1"} |-> 1]
    /\ heap = <<Session("s1", 0)>>
    /\ running = Idle
    /\ pending = {}
    /\ posts = <<0>>
    /\ now = 0
    /\ accepted = 0

CallAddMessage(role, text) ==
    /\ Len(heap[1].conversation_history) < MaxTurns
    /\ heap' = [heap EXCEPT ![1] = add_message(@, role, text, now)]
    /\ running' = [Called("add_message") EXCEPT !.text = text]
    /\ UNCHANGED <<settings, sessions, pending, posts, now, accepted>>

\* for intent in detect(text)[1]: session.add_scam_intent(intent)
CallAddScamIntents(text) ==
    /\ heap' = [heap EXCEPT ![1] = add_scam_intents(@, detect(text).scam_intents)]
    /\ running' = [Called("add_scam_intent") EXCEPT !.text = text]
    /\ UNCHANGED <<settings, sessions, pending, posts, now, accepted>>

\* faulty variant: the evaluation terminates the session when it says true
CallShouldTerminate_flipping ==
    /\ LET r == should_terminate(heap[1], now, settings)
       IN  /\ running' = [Called("should_terminate") EXCEPT !.should_terminate = r[1],
                                                            !.termination_reason = r[2]]
           /\ heap' = [heap EXCEPT ![1] = IF r[1] THEN terminate(@, r[2]) ELSE @]
    /\ UNCHANGED <<settings, sessions, pending, posts, now, accepted>>

\* session.should_terminate(): reads the session, the clock and the settings
CallShouldTerminate ==
    /\ LET r == should_terminate(heap[1], now, settings)
       IN  running' = [Called("should_terminate") EXCEPT !.should_terminate = r[1],
                                                         !.termination_reason = r[2]]
    /\ UNCHANGED <<settings, sessions, heap, pending, posts, now, accepted>>

CallTerminate(reason) ==
    /\ heap' = [heap EXCEPT ![1] = terminate(@, reason)]
    /\ running' = [Called("terminate") EXCEPT !.termination_reason = reason]
    /\ UNCHANGED <<settings, sessions, pending, posts, now, accepted>>

CallCleanup ==
    /\ sessions' = cleanup_expired_sessions(sessions, heap, now, settings)
    /\ running' = Called("cleanup_expired_sessions")
    /\ UNCHANGED <<settings, heap, pending, posts, now, accepted>>

CallTick ==
    /\ now < MaxTime
    /\ now' = now + 1
    /\ running' = Idle
    /\ UNCHANGED <<settings, sessions, heap, pending, posts, accepted>>

SessionNext ==
    \/ \E role \in Roles, text \in {TEmpty} : CallAddMessage(role, text)
    \/ \E text \in DetectedTexts : CallAddScamIntents(text)
    \/ CallShouldTerminate
    \/ \E reason \in ManualReasons : CallTerminate(reason)
    \/ CallCleanup
    \/ CallTick

SessionSpec == SessionInit /\ [][SessionNext]_vars

(***************************************************************************)
(* ReplyGenerator.generate_reply called directly, on arguments drawn from  *)
(* small sets.  running is the frame of the call: its arguments, what      *)
(* generate_engagement_reply would give (llm_reply), the draws of the      *)
(* random source, and the reply returned.                                  *)
(***************************************************************************)
MaxReplyCount == 16  \* message_count runs over 0..MaxReplyCount (all five tiers)
MaxPick == 2         \* random.choice draws run over 1..MaxPick

ReplyTexts == {THello, TBot, TFull}
\* values of session.scam_intents
ReplyIntents == {<<>>, <<"romance_scam">>, <<"job_scam">>, <<"financial_fraud">>,
                 <<"upi_scam", "fake_prize">>, <<"fake_prize">>,
                 <<"fake_prize", "job_scam">>}
ReplyLlmChoices == {"", LlmReplyShort, LlmReplyThree, LlmReplyGood}
ReplyRnd == [pick : 1..MaxPick, coin1 : BOOLEAN, coin2 : BOOLEAN]

CallGenerateReply(message, scam_intents, message_count, has_session, llm_reply, rnd) ==
    /\ running = Idle
    /\ running' = [pc |-> "generate_reply",
                   message |-> message,
                   scam_intents |-> scam_intents,
                   message_count |-> message_count,
                   has_session |-> has_session,
                   llm_reply |-> llm_reply,
                   rnd |-> rnd,
                   reply |-> generate_reply(message, scam_intents, message_count,
                                            has_session, llm_reply, rnd)]
    /\ UNCHANGED <<settings, sessions, heap, pending, posts, now, accepted>>

ReplyReturned ==
    /\ running.pc = "generate_reply"
    /\ running' = Idle
    /\ UNCHANGED <<settings, sessions, heap, pending, posts, now, accepted>>

ReplyNext ==
    \/ running = Idle /\ \E message \in ReplyTexts, scam_intents \in ReplyIntents,
          message_count \in 0..MaxReplyCount, has_session \in BOOLEAN,
          llm_reply \in ReplyLlmChoices, rnd \in ReplyRnd :
             CallGenerateReply(message, scam_intents, message_count, has_session,
                               llm_reply, rnd)
    \/ ReplyReturned

ReplySpec == Init /\ [][ReplyNext]_vars

(***************************************************************************)
(* Vocabulary of the properties.                                           *)
(***************************************************************************)
Frames == pending \cup (IF running = Idle THEN {} ELSE {running})

InStore(o) ==
    /\ heap[o].session_id \in DOMAIN sessions
    /\ sessions[heap[o].session_id] = o

\* the two gating conditions, as the specification words them
GatingConditions(s) ==
    /\ Range(s.scam_intents) # {}
    /\ s.message_count >= settings.min_messages_for_callback

IsGoodbye(turn) == turn.role = "agent" /\ turn.content \in Range(GOODBYES)

(***************************************************************************)
(* C1.  With requests processed one at a time, a session terminated by the *)
(* flow gets its callback dispatched exactly once if it passes the gating  *)
(* conditions (and not at all otherwise), and the dispatch finds the       *)
(* session terminated and still in the live store.                         *)
(***************************************************************************)
C1_DispatchedOnceInOrder ==
    /\ \A o \in DOMAIN heap : posts[o] <= 1
    /\ \A o \in DOMAIN heap : posts[o] >= 1 => ~heap[o].is_active
    /\ \A f \in pending :
          /\ posts[f.obj] = 1
          /\ ~heap[f.obj].is_active
          /\ f.sid \in DOMAIN sessions /\ sessions[f.sid] = f.obj
    /\ running.pc = "sent" =>
          /\ ~heap[running.obj].is_active
          /\ sessions[running.sid] = running.obj
          /\ posts[running.obj] = IF GatingConditions(heap[running.obj]) THEN 1 ELSE 0

C1_Witness ==
    /\ running.pc = "sent"
    /\ posts[running.obj] = 1
    /\ GatingConditions(heap[running.obj])
    /\ ~heap[running.obj].is_active
    /\ sessions[running.sid] = running.obj

(***************************************************************************)
(* C2.  Whatever the interleaving of requests with the same session id,    *)
(* the callback is dispatched at most once for a session.                  *)
(***************************************************************************)
C2_AtMostOneDispatch == \A o \in DOMAIN posts : posts[o] <= 1

(***************************************************************************)
(* C3.  The callback is never dispatched for a session whose intents are   *)
(* empty, whatever its turn count.                                         *)
(***************************************************************************)
C3_NoDispatchWithoutIntents ==
    /\ \A f \in Frames : f.payload # <<>> => f.payload[1].agentNotes.intents # <<>>
    /\ \A o \in DOMAIN heap : posts[o] > 0 => heap[o].scam_intents # <<>>

C3_Witness ==
    /\ running.pc = "sent"
    /\ running.payload = <<>>
    /\ posts[running.obj] = 0
    /\ heap[running.obj].scam_intents = <<>>
    /\ heap[running.obj].message_count >= settings.min_messages_for_callback

(***************************************************************************)
(* C4.  The callback is never dispatched for a session whose turn count is *)
(* below the minimum engagement threshold, even with intents present.      *)
(***************************************************************************)
C4_NoDispatchBelowThreshold ==
    /\ \A f \in Frames : f.payload # <<>> =>
          f.payload[1].totalMessagesExchanged >= settings.min_messages_for_callback
    /\ \A o \in DOMAIN heap : posts[o] > 0 =>
          heap[o].message_count >= settings.min_messages_for_callback

C4_Witness ==
    /\ running.pc = "sent"
    /\ running.payload = <<>>
    /\ posts[running.obj] = 0
    /\ heap[running.obj].scam_intents # <<>>
    /\ heap[running.obj].message_count < settings.min_messages_for_callback

C6_SameIdSerialized ==
    \A f \in pending : \A g \in Frames : g.sid = f.sid => g = f

(***************************************************************************)
(* C7.  For every session turnCount equals the number of turns, and        *)
(* appending a turn, for either speaker and any text (the empty string     *)
(* included), adds exactly that turn at the end, adds one to turnCount and *)
(* sets lastActivityAt to the current time.                                *)
(***************************************************************************)
C7_TurnCountIsLength ==
    \A o \in DOMAIN heap :
       LET s == heap[o]
           n == Len(s.conversation_history)
       IN  /\ s.message_count = n
           /\ \A role \in {"scammer", "agent"}, text \in Catalogue \cup Range(GOODBYES) :
                 LET s2 == add_message(s, role, text, now)
                 IN  /\ Len(s2.conversation_history) = n + 1
                     /\ SubSeq(s2.conversation_history, 1, n) = s.conversation_history
                     /\ s2.conversation_history[n + 1].role = role
                     /\ s2.conversation_history[n + 1].content = text
                     /\ s2.message_count = s.message_count + 1
                     /\ s2.last_activity = now

C7_Witness ==
    \E o \in DOMAIN heap :
       LET h == heap[o].conversation_history
       IN  /\ Len(h) >= 2
           /\ h[1] = [role |-> "scammer", content |-> ""]
           /\ h[2].role = "agent"
           /\ heap[o].message_count = Len(h)
           /\ heap[o].last_activity = now
           /\ now > 0

(***************************************************************************)
(* C8.  A session's intents and each of its five intelligence sets only    *)
(* grow: no step removes an element from any of them.                      *)
(***************************************************************************)
C8_SetsOnlyGrow ==
    [][\A o \in DOMAIN heap \cap DOMAIN heap' :
          /\ Range(heap[o].scam_intents) \subseteq Range(heap'[o].scam_intents)
          /\ \A f \in IntelFields :
                Range(heap[o].intelligence[f]) \subseteq Range(heap'[o].intelligence[f])]_vars

C8_Witness ==
    \E o \in DOMAIN heap :
       LET h == heap[o].conversation_history
       IN  /\ Len(h) >= 3
           /\ h[1].content = TFull
           /\ h[3] = [role |-> "scammer", content |-> TEmpty]
           /\ heap[o].scam_intents # <<>>
           /\ \A f \in IntelFields : heap[o].intelligence[f] # <<>>

(***************************************************************************)
(* C9.  Merging a report is a set union and is idempotent: after the merge *)
(* of a request each of the five sets holds exactly its previous members   *)
(* and the report's, each once, and merging the same report again changes  *)
(* neither the members nor the size.                                       *)
(***************************************************************************)
C9_MergeIsIdempotentUnion ==
    [][(running = Idle /\ running'.pc = "checked") =>
          LET o == running'.obj
              before == IF o \in DOMAIN heap THEN heap[o].intelligence ELSE EmptyReport
              after == heap'[o].intelligence
              report == running'.intel_report
              again == merge_intelligence(heap'[o], report, running'.endpoint).intelligence
          IN  \A f \in IntelFields :
                 /\ Range(after[f]) = Range(before[f]) \cup Range(report[f])
                 /\ Len(after[f]) = Cardinality(Range(after[f]))
                 /\ Range(again[f]) = Range(after[f])
                 /\ Len(again[f]) = Len(after[f])]_vars

C9_Witness ==
    /\ running.pc = "checked"
    /\ running.text = TFull
    /\ LET s == heap[running.obj]
       IN  /\ Len(s.conversation_history) = 3
           /\ s.conversation_history[1].content = TFull
           /\ Len(s.intelligence.upiIds) = 2
           /\ Len(s.intelligence.phoneNumbers) = 1

(***************************************************************************)
(* C10.  After every completed request, each of a session's five           *)
(* intelligence sets holds no value twice and no empty string.             *)
(***************************************************************************)
C10_NoDuplicateNoEmpty ==
    running = Idle =>
       \A sid \in DOMAIN sessions : \A f \in IntelFields :
          LET values == heap[sessions[sid]].intelligence[f]
          IN  NoDuplicates(values) /\ "" \notin Range(values)

(***************************************************************************)
(* Vocabulary of the properties on direct calls: the session the calls act *)
(* on, and the conditions of should_terminate as the specification words   *)
(* them.                                                                   *)
(***************************************************************************)
AtCeiling(s) == s.message_count >= settings.max_messages_per_session

IdlePastTimeout(s) == now - s.last_activity > settings.session_timeout_seconds

Returned == <<running.should_terminate, running.termination_reason>>

(***************************************************************************)
(* C11.  A session's intents never hold the NONE sentinel and never hold a *)
(* label twice, after any sequence of merges of detection results, the     *)
(* classifier's [NONE] result included.                                    *)
(***************************************************************************)
C11_NoSentinelNoDuplicate ==
    \A o \in DOMAIN heap :
       /\ NONE \notin Range(heap[o].scam_intents)
       /\ NoDuplicates(heap[o].scam_intents)

C11_Witness ==
    /\ running.pc = "add_scam_intent"
    /\ running.text = TEmpty
    /\ detect(running.text).scam_intents = <<NONE>>
    /\ Len(heap[1].scam_intents) = 4
    /\ heap[1].scam_intents[1] = "upi_scam"

(***************************************************************************)
(* C12.  should_terminate tests the ceiling, then the timeout, then the    *)
(* flag, and the first match wins: at or above the ceiling it returns the  *)
(* max-messages reason, also when the session is idle past the timeout or  *)
(* already terminated; below the ceiling and idle past the timeout it      *)
(* returns session_timeout; otherwise, for an active session, it returns   *)
(* (false, no reason).                                                     *)
(***************************************************************************)
C12_CheckOrder ==
    running.pc = "should_terminate" =>
       LET s == heap[running.obj]
       IN  /\ AtCeiling(s) => Returned = <<TRUE, "max_messages_reached">>
           /\ (~AtCeiling(s) /\ IdlePastTimeout(s)) => Returned = <<TRUE, "session_timeout">>
           /\ (~AtCeiling(s) /\ ~IdlePastTimeout(s) /\ s.is_active) =>
                 Returned = <<FALSE, None>>

C12_Witness ==
    /\ running.pc = "should_terminate"
    /\ AtCeiling(heap[running.obj])
    /\ IdlePastTimeout(heap[running.obj])
    /\ ~heap[running.obj].is_active
    /\ Returned = <<TRUE, "max_messages_reached">>

(***************************************************************************)
(* C13.  For a session below the ceiling and not idle past the timeout     *)
(* that an outside call to terminate has flagged, with any reason,         *)
(* should_terminate returns true with the reason manually_terminated.      *)
(***************************************************************************)
C13_ManualFlagReason ==
    running.pc = "should_terminate" =>
       LET s == heap[running.obj]
       IN  (~AtCeiling(s) /\ ~IdlePastTimeout(s) /\ ~s.is_active) =>
              Returned = <<TRUE, "manually_terminated">>

(***************************************************************************)
(* C14.  terminate is idempotent: a second call on a terminated session    *)
(* leaves it terminated with the reason of the first call.                 *)
(***************************************************************************)
C14_TerminateKeepsFirstReason ==
    [][(running'.pc = "terminate" /\ ~heap[1].is_active) =>
          /\ ~heap'[1].is_active
          /\ heap'[1].termination_reason = heap[1].termination_reason]_vars

(***************************************************************************)
(* C15.  A session starts active, and once it is terminated no call        *)
(* (add_message, the merges, should_terminate, terminate, the sweep) makes *)
(* it active again.                                                        *)
(***************************************************************************)
C15_StatusOneWay ==
    /\ \A o \in DOMAIN heap : heap[o].is_active
    /\ [][\A o \in DOMAIN heap \cap DOMAIN heap' :
             ~heap[o].is_active => ~heap'[o].is_active]_vars

C15_Witness ==
    /\ running.pc = "add_message"
    /\ ~heap[1].is_active
    /\ heap[1].scam_intents # <<>>
    /\ "s1" \notin DOMAIN sessions

(***************************************************************************)
(* C16.  In the per-message flow a session has a termination reason if and *)
(* only if it is terminated, and the reason is one of the fixed reasons.   *)
(***************************************************************************)
C16_ReasonIffTerminated ==
    \A o \in DOMAIN heap :
       /\ heap[o].termination_reason # None <=> ~heap[o].is_active
       /\ ~heap[o].is_active => heap[o].termination_reason \in TerminationReasons

C16_Witness ==
    \E o \in DOMAIN heap :
       /\ ~heap[o].is_active
       /\ heap[o].termination_reason = "max_messages_reached"
       /\ Len(heap[o].conversation_history) >= 3

(***************************************************************************)
(* C17.  However the callback ended (delivered, another status, a network  *)
(* error, a timeout, or skipped at the gate), the terminating request next *)
(* removes the session from the store, keeps its goodbye as the reply, and *)
(* does not send the callback again.                                       *)
(***************************************************************************)
C17_DeliveryOutcomeIgnored ==
    [][/\ running.pc = "sent" =>
             /\ running.callback_result \in CallbackOutcomes \cup {Skipped}
             /\ running'.pc = "replying"
             /\ running.sid \notin DOMAIN sessions'
             /\ running'.reply = running.reply
             /\ running'.reply \in Range(GOODBYES)
             /\ posts' = posts /\ pending' = pending
       /\ (running.pc = "replying" /\ ~heap[running.obj].is_active) =>
             /\ running'.pc = "respond"
             /\ running'.reply = running.reply
             /\ running.sid \notin DOMAIN sessions'
             /\ posts' = posts /\ pending' = pending]_vars

C17_Witness ==
    /\ running.pc = "sent"
    /\ running.callback_result = "timeout"
    /\ posts[running.obj] = 1
    /\ running.sid \in DOMAIN sessions
    /\ running.reply \in Range(GOODBYES)

(***************************************************************************)
(* C18.  A request whose message text is empty or missing (no body, a body *)
(* without message, a message with the empty text) is answered with the    *)
(* neutral greeting and changes neither the store nor any session.         *)
(***************************************************************************)
C18_EmptyTextBypassed ==
    [][(/\ running = Idle
        /\ \/ running'.pc = "respond"
           \/ running'.pc = "checked" /\ running'.text = ""
           \/ running' = Idle /\ accepted' # accepted) =>
          /\ sessions' = sessions
          /\ heap' = heap
          /\ running'.pc = "respond"
          /\ running'.reply = NEUTRAL_GREETING]_vars

(***************************************************************************)
(* C19.  For every turn count and every intents value, a message that      *)
(* matches a meta-question pattern is answered from the deflection pool:   *)
(* the reply is neither the generative reply nor one of the tiered pools.  *)
(***************************************************************************)
TieredPools ==
    Range(INITIAL_RESPONSES) \cup Range(CURIOUS_RESPONSES) \cup Range(FINANCIAL_RESPONSES)
    \cup Range(PRIZE_RESPONSES) \cup Range(JOB_RESPONSES) \cup Range(STALLING_RESPONSES)
    \cup Range(ENGAGEMENT_RESPONSES) \cup Range(VERY_LATE_RESPONSES)

C19_MetaQuestionDeflected ==
    (running.pc = "generate_reply" /\ running.message = TBot) =>
       /\ running.reply \in Range(DEFLECTIONS)
       /\ running.reply # running.llm_reply
       /\ running.reply \notin TieredPools

C19_Witness ==
    /\ running.pc = "generate_reply"
    /\ running.message = TBot
    /\ running.message_count = MaxReplyCount
    /\ running.scam_intents = <<"upi_scam", "fake_prize">>
    /\ running.has_session
    /\ running.llm_reply = LlmReplyGood
    /\ running.reply \in Range(DEFLECTIONS)

LlmReplyEcho == "Theek hai, winner@paytm pe bhejun?"
EchoReplies == {"", LlmReplyEcho}

\* the intelligence values that are substrings of a reply (value in reply)
ValuesIn(reply) ==
    CASE reply = LlmReplyEcho -> {"", "winner@paytm"}
      [] OTHER -> {""}

EchoNext ==
    \/ \E sid \in SessionIds : Begin("honeypot", sid, TFull, NoLlmIntel)
    \/ \E rnd \in Rnd : Terminate(rnd)
    \/ SendCallback
    \/ \E frame \in pending, outcome \in CallbackOutcomes : CallbackResult(frame, outcome)
    \/ DeleteSession
    \/ \E llm_reply \in EchoReplies, rnd \in Rnd : GenerateReply(llm_reply, rnd)
    \/ AddReply
    \/ Return
    \/ Cleanup
    \/ Tick

EchoSpec == Init /\ [][EchoNext]_vars

(***************************************************************************)
(* C21.  No reply returned to the caller contains a value held in one of   *)
(* the session's intelligence sets, whichever path produced the reply.     *)
(***************************************************************************)
C21_NoIntelligenceInReply ==
    running.pc = "respond" =>
       \A f \in IntelFields :
          Range(heap[running.obj].intelligence[f]) \cap ValuesIn(running.reply) = {}

(***************************************************************************)
(* IntelligenceExtractor.extract called directly, on a message of the      *)
(* catalogue and on every outcome of the enrichment step.  An answer is    *)
(* what _extract_with_llm met: no capability (LLM_AVAILABLE false), an     *)
(* exception of generate_content, a text that is not JSON, JSON that is    *)
(* not an object, or an object whose four keys are each absent, null, a    *)
(* list of strings, or a list holding a nested object or list.             *)
(***************************************************************************)
LlmFields == <<"upiIds", "phoneNumbers", "urls", "bankDetails">>

FieldAbsent == [shape |-> "absent", items |-> <<>>]
FieldNull == [shape |-> "null", items |-> <<>>]
FieldEmpty == [shape |-> "list", items |-> <<>>]
FieldFound == [shape |-> "list", items |-> <<"scammer@ybl">>]
FieldNested == [shape |-> "nested", items |-> <<>>]
FieldChoices == {FieldAbsent, FieldNull, FieldEmpty, FieldFound, FieldNested}

NoFields == [f \in Range(LlmFields) |-> FieldAbsent]
LlmAnswers ==
    {[kind |-> k, fields |-> NoFields] :
        k \in {"unavailable", "raises", "not_json", "not_object"}}
    \cup {[kind |-> "object", fields |-> fs] : fs \in [Range(LlmFields) -> FieldChoices]}

\* lines 65-76: the number of extends that ran before the try block was left
ExtendsDone(answer) ==
    IF answer.kind # "object" THEN 0
    ELSE LET nulls == {i \in 1..Len(LlmFields) : answer.fields[LlmFields[i]].shape = "null"}
         IN  IF nulls = {} THEN Len(LlmFields)
             ELSE (CHOOSE i \in nulls : \A j \in nulls : i <= j) - 1

Extended(answer) == {LlmFields[i] : i \in 1..ExtendsDone(answer)}

\* extract (lines 44-86) with the enrichment step's outcome as an argument;
\* raised: the call left by an exception, report: what it returned otherwise
extract_with(message, answer) ==
    LET report == regex_report(message)
        enriched == [f \in IntelFields |->
                        IF f \in Extended(answer)
                        THEN report[f] \o answer.fields[f].items
                        ELSE report[f]]
        \* set() over a list holding a dict or a list: TypeError, lines 80-83
        unhashable == \E f \in Extended(answer) : answer.fields[f].shape = "nested"
    IN  [raised |-> unhashable,
         report |-> IF unhashable THEN EmptyReport
                    ELSE [f \in IntelFields |-> ListOfSet(enriched[f])]]

CallExtract(message, answer) ==
    /\ running = Idle
    /\ running' = [pc |-> "extract", message |-> message, answer |-> answer,
                   result |-> extract_with(message, answer)]
    /\ UNCHANGED <<settings, sessions, heap, pending, posts, now, accepted>>

ExtractReturned ==
    /\ running.pc = "extract"
    /\ running' = Idle
    /\ UNCHANGED <<settings, sessions, heap, pending, posts, now, accepted>>

ExtractNext ==
    \/ running = Idle /\ \E message \in Catalogue, answer \in LlmAnswers :
          CallExtract(message, answer)
    \/ ExtractReturned

ExtractSpec == Init /\ [][ExtractNext]_vars

(***************************************************************************)
(* C22.  Whatever the enrichment step does (unavailable, exception,        *)
(* malformed or partial answer, valid answer), extract returns without     *)
(* raising and every regex-derived set is contained in the report's set.   *)
(***************************************************************************)
C22_ExtractNeverRaises ==
    running.pc = "extract" =>
       /\ ~running.result.raised
       /\ \A f \in IntelFields :
             Range(RegexMatches(running.message)[f]) \subseteq Range(running.result.report[f])

\* the payloads handed to client.post by the step
Dispatched == pending' \ pending

PayloadLists(payload) ==
    {payload.extractedIntelligence[k] : k \in DOMAIN payload.extractedIntelligence}

MaxHistory == 2  \* the drawn histories have at most MaxHistory turns

KeywordTexts == {THello, TPrize, TFull, TSeven, TAllTerms}
KeywordTurns == [role : Roles, content : KeywordTexts]
Histories == UNION {[1..n -> KeywordTurns] : n \in 0..MaxHistory}

CallExtractKeywords(history) ==
    /\ running = Idle
    /\ LET session == [Session("s1", now) EXCEPT
                          !.conversation_history = history,
                          !.message_count = Len(history)]
       IN  running' = [pc |-> "_extract_keywords", session |-> session,
                       keywords |-> _extract_keywords(session)]
    /\ UNCHANGED <<settings, sessions, heap, pending, posts, now, accepted>>

KeywordsReturned ==
    /\ running.pc = "_extract_keywords"
    /\ running' = Idle
    /\ UNCHANGED <<settings, sessions, heap, pending, posts, now, accepted>>

KeywordNext ==
    \/ running = Idle /\ \E history \in Histories : CallExtractKeywords(history)
    \/ KeywordsReturned

KeywordSpec == Init /\ [][KeywordNext]_vars

\* the terms of the fixed list that occur in some turn of the history
TermsOccurring(history) ==
    {term \in Range(suspicious_terms) :
        \E i \in 1..Len(history) : term \in TermsIn(history[i].content)}

(***************************************************************************)
(* C24.  The suspiciousKeywords list has at most 10 entries, has no        *)
(* repeated entry, and holds only terms of the fixed list that occur       *)
(* (case-insensitively) in some turn of the session.                       *)
(***************************************************************************)
C24_KeywordsBounded ==
    running.pc = "_extract_keywords" =>
       /\ Len(running.keywords) <= 10
       /\ NoDuplicates(running.keywords)
       /\ Range(running.keywords) \subseteq
             TermsOccurring(running.session.conversation_history)

\* more than ten terms occur, across two turns, and ten are returned
C24_Witness ==
    /\ running.pc = "_extract_keywords"
    /\ Cardinality(TermsOccurring(running.session.conversation_history)) > 10
    /\ \A i \in 1..Len(running.session.conversation_history) :
          running.session.conversation_history[i].content # TAllTerms
    /\ Len(running.keywords) = 10

(***************************************************************************)
(* SessionManager called directly on two ids: get_or_create_session,       *)
(* delete_session, the /api/v1/sessions/cleanup handler, and, to make the  *)
(* stored sessions differ, add_message and terminate on a stored session.  *)
(* running is the frame of the call in progress: the method, its argument  *)
(* and what it returns.                                                    *)
(***************************************************************************)
StoreIds == {"s1", "s2"}

\* the address a new object gets
Allocate(objects) == CHOOSE a \in Objs \ DOMAIN objects : \A b \in Objs \ DOMAIN objects : a <= b

\* SessionManager.get_session: the address stored under sid, 0 for None
get_session(store, sid) == IF sid \in DOMAIN store THEN store[sid] ELSE 0

\* SessionManager.create_session: the store, the objects and the address returned
create_session(store, objects, sid, t) ==
    IF sid \in DOMAIN store
    THEN [store |-> store, objects |-> objects, obj |-> store[sid]]
    ELSE LET a == Allocate(objects)
         IN  [store |-> [x \in DOMAIN store \cup {sid} |-> IF x = sid THEN a ELSE store[x]],
              objects |-> [b \in DOMAIN objects \cup {a} |->
                             IF b = a THEN Session(sid, t) ELSE objects[b]],
              obj |-> a]

\* faulty variant: a new session is stored whether or not the id is known
get_or_create_session_always_new(store, objects, sid, t) ==
    LET kept == Restrict(objects, DOMAIN objects \ {get_session(store, sid)})
    IN  create_session(delete_session(store, sid), kept, sid, t)

\* SessionManager.get_or_create_session
get_or_create_session(store, objects, sid, t) ==
    IF get_session(store, sid) = 0
    THEN create_session(store, objects, sid, t)
    ELSE [store |-> store, objects |-> objects, obj |-> get_session(store, sid)]

StoreCall(method, sid) ==
    [pc |-> method, sid |-> sid, obj |-> 0, found |-> FALSE, swept |-> {}, count |-> 0]

CallGetOrCreate(sid) ==
    /\ running = Idle
    /\ LET r == get_or_create_session(sessions, heap, sid, now)
       IN  /\ sessions' = r.store
           /\ heap' = r.objects
           /\ running' = [StoreCall("get_or_create_session", sid) EXCEPT
                             !.obj = r.obj, !.found = sid \in DOMAIN sessions]
    /\ UNCHANGED <<settings, pending, posts, now, accepted>>

CallDelete(sid) ==
    /\ running = Idle
    /\ sessions' = delete_session(sessions, sid)
    /\ heap' = Restrict(heap, Reachable(sessions', {}) \cap DOMAIN heap)
    /\ running' = [StoreCall("delete_session", sid) EXCEPT !.found = sid \in DOMAIN sessions]
    /\ UNCHANGED <<settings, pending, posts, now, accepted>>

\* routes.py 245-252: cleanup_expired_sessions, then get_active_session_count
CallCleanupSessions ==
    /\ running = Idle
    /\ sessions' = cleanup_expired_sessions(sessions, heap, now, settings)
    /\ heap' = Restrict(heap, Reachable(sessions', {}) \cap DOMAIN heap)
    /\ running' = [StoreCall("cleanup_sessions", "") EXCEPT
                      !.swept = {heap[sessions[x]] : x \in DOMAIN sessions \ DOMAIN sessions'},
                      !.count = get_active_session_count(sessions')]
    /\ UNCHANGED <<settings, pending, posts, now, accepted>>

StoreAddMessage(sid) ==
    /\ running = Idle
    /\ sid \in DOMAIN sessions
    /\ heap[sessions[sid]].message_count < MaxTurns
    /\ heap' = [heap EXCEPT ![sessions[sid]] = add_message(@, "scammer", THello, now)]
    /\ running' = StoreCall("add_message", sid)
    /\ UNCHANGED <<settings, sessions, pending, posts, now, accepted>>

StoreTerminate(sid) ==
    /\ running = Idle
    /\ sid \in DOMAIN sessions
    /\ heap' = [heap EXCEPT ![sessions[sid]] = terminate(@, "manual")]
    /\ running' = StoreCall("terminate", sid)
    /\ UNCHANGED <<settings, sessions, pending, posts, now, accepted>>

StoreReturned ==
    /\ running # Idle
    /\ running' = Idle
    /\ UNCHANGED <<settings, sessions, heap, pending, posts, now, accepted>>

StoreNext ==
    \/ \E sid \in StoreIds : CallGetOrCreate(sid)
    \/ \E sid \in StoreIds : CallDelete(sid)
    \/ CallCleanupSessions
    \/ \E sid \in StoreIds : StoreAddMessage(sid)
    \/ \E sid \in StoreIds : StoreTerminate(sid)
    \/ StoreReturned
    \/ Tick

StoreSpec == Init /\ [][StoreNext]_vars

\* the step is a call of the method
Calls(method) == running = Idle /\ running'.pc = method

\* the sessions stored under the ids of S are the same objects, unchanged
SameSessions(S) ==
    \A x \in S : /\ x \in DOMAIN sessions'
                 /\ sessions'[x] = sessions[x]
                 /\ heap'[sessions'[x]] = heap[sessions[x]]

(***************************************************************************)
(* C25.  get_or_create_session never fails.  For an id in the store it     *)
(* returns the stored session, unchanged, and leaves the store as it was;  *)
(* for an unseen id it stores exactly one new session, active, with turn   *)
(* count 0 and no turns, intents or intelligence.  The store never holds   *)
(* two sessions for one id and a session's id never changes.               *)
(***************************************************************************)
C25_GetOrCreate ==
    [][/\ Calls("get_or_create_session") =>
            LET sid == running'.sid
                obj == running'.obj
            IN  /\ sid \in DOMAIN sessions'
                /\ sessions'[sid] = obj
                /\ SameSessions(DOMAIN sessions)
                /\ IF sid \in DOMAIN sessions
                   THEN sessions' = sessions /\ heap' = heap
                   ELSE /\ DOMAIN sessions' = DOMAIN sessions \cup {sid}
                        /\ obj \notin DOMAIN heap
                        /\ heap'[obj].is_active
                        /\ heap'[obj].message_count = 0
                        /\ heap'[obj].conversation_history = <<>>
                        /\ heap'[obj].scam_intents = <<>>
                        /\ heap'[obj].intelligence = EmptyReport
       /\ \A x \in DOMAIN sessions' : heap'[sessions'[x]].session_id = x
       /\ \A x, y \in DOMAIN sessions' : x # y => sessions'[x] # sessions'[y]
       /\ \A a \in DOMAIN heap \cap DOMAIN heap' :
             heap'[a].session_id = heap[a].session_id]_vars

\* a used session is returned for its id while another id is stored too
C25_Witness ==
    /\ running.pc = "get_or_create_session"
    /\ running.found
    /\ heap[running.obj].message_count > 0
    /\ DOMAIN sessions = StoreIds

(***************************************************************************)
(* C26.  delete_session(id) removes the session stored under that id and   *)
(* nothing else: every other stored session stays, unchanged.  On an id    *)
(* that is not in the store it changes nothing.                            *)
(***************************************************************************)
C26_DeleteRemovesOnlyThat ==
    [][Calls("delete_session") =>
          /\ DOMAIN sessions' = DOMAIN sessions \ {running'.sid}
          /\ SameSessions(DOMAIN sessions \ {running'.sid})
          /\ running'.sid \notin DOMAIN sessions => sessions' = sessions /\ heap' = heap]_vars

\* a stored session was deleted and the other id's used session is still there
C26_Witness ==
    /\ running.pc = "delete_session"
    /\ running.found
    /\ running.sid \notin DOMAIN sessions
    /\ \E x \in DOMAIN sessions : heap[sessions[x]].message_count > 0

(***************************************************************************)
(* C27.  The sweep removes exactly the stored sessions whose idle time,    *)
(* now - last_activity, exceeds the timeout, active or terminated alike,   *)
(* and leaves the others unchanged; the count the handler then reports is  *)
(* the number of sessions remaining.                                       *)
(***************************************************************************)
C27_SweepRemovesExactlyExpired ==
    [][Calls("cleanup_sessions") =>
          LET idle(x) == now - heap[sessions[x]].last_activity
              kept == {x \in DOMAIN sessions : idle(x) <= settings.session_timeout_seconds}
          IN  /\ DOMAIN sessions' = kept
              /\ SameSessions(kept)
              /\ running'.count = Cardinality(DOMAIN sessions')]_vars

\* a terminated session was swept while a session at the timeout's edge stayed
C27_Witness ==
    /\ running.pc = "cleanup_sessions"
    /\ \E s \in running.swept : ~s.is_active
    /\ running.count = 1
    /\ \E x \in DOMAIN sessions :
          now - heap[sessions[x]].last_activity = settings.session_timeout_seconds

\* the step is a sweep: no request holds the event loop before or after it
SweepStep == running = Idle /\ running' = Idle /\ sessions' # sessions

(***************************************************************************)
(* C28.  A sweep never removes a session while a request for its id is     *)
(* between fetching the session and appending its outbound turn.           *)
(***************************************************************************)
C28_SweepSparesSessionsInUse ==
    [][SweepStep =>
          \A f \in pending :
             (f.sid \in DOMAIN sessions /\ sessions[f.sid] = f.obj)
                => f.sid \in DOMAIN sessions']_vars

(***************************************************************************)
(* The flow of /api/honeypot with two session ids, every message carrying  *)
(* cues and intelligence, the generative capability absent.                *)
(***************************************************************************)
TwoIdNext ==
    \/ \E sid \in StoreIds : Begin("honeypot", sid, TFull, NoLlmIntel)
    \/ \E rnd \in Rnd : Terminate(rnd)
    \/ SendCallback
    \/ \E frame \in pending, outcome \in CallbackOutcomes : CallbackResult(frame, outcome)
    \/ DeleteSession
    \/ \E rnd \in Rnd : GenerateReply("", rnd)
    \/ AddReply
    \/ Return
    \/ Cleanup
    \/ Tick

TwoIdSpec == Init /\ [][TwoIdNext]_vars

\* the step belongs to a request for sid
RequestStep(sid) ==
    \/ running' # Idle /\ running'.sid = sid
    \/ running # Idle /\ running' = Idle /\ running.sid = sid

(***************************************************************************)
(* C29.  Sessions with different ids are independent: a step of a request  *)
(* for one id leaves every session of another id as it was (turns, turn    *)
(* count, intents, intelligence, status) and in the store.  A request for  *)
(* one id can complete while a request for another id waits on its         *)
(* callback POST.                                                          *)
(***************************************************************************)
C29_OtherIdsUntouched ==
    [][\A sid \in StoreIds :
          RequestStep(sid) =>
             /\ \A a \in DOMAIN heap :
                   heap[a].session_id # sid => a \in DOMAIN heap' /\ heap'[a] = heap[a]
             /\ \A x \in DOMAIN sessions \ {sid} :
                   x \in DOMAIN sessions' /\ sessions'[x] = sessions[x]]_vars

\* a request completes for one id, on a session with turns, while a request
\* for the other id is suspended in its callback POST
C29_Witness ==
    /\ running.pc = "respond"
    /\ \E f \in pending : f.pc = "awaiting" /\ f.sid # running.sid
    /\ heap[running.obj].message_count >= 2

(***************************************************************************)
(* The flow of /api/honeypot for messages that match one cue of one        *)
(* category (confidence 0.25, below the detector's 0.3) or many.           *)
(***************************************************************************)
CueTexts == {TLonely, TFull}

CueNext ==
    \/ \E sid \in SessionIds, text \in CueTexts : Begin("honeypot", sid, text, NoLlmIntel)
    \/ \E rnd \in Rnd : Terminate(rnd)
    \/ SendCallback
    \/ \E frame \in pending, outcome \in CallbackOutcomes : CallbackResult(frame, outcome)
    \/ DeleteSession
    \/ \E rnd \in Rnd : GenerateReply("", rnd)
    \/ AddReply
    \/ Return
    \/ Cleanup
    \/ Tick

CueSpec == Init /\ [][CueNext]_vars

\* some inbound turn of the session was classified as a scam by detect
ClassifiedScam(s) ==
    \E i \in 1..Len(s.conversation_history) :
       /\ s.conversation_history[i].role = "scammer"
       /\ detect(s.conversation_history[i].content).is_scam

(***************************************************************************)
(* C30.  A callback is dispatched only for a session in which at least one *)
(* inbound message was classified as a scam (is_scam true) by detect.      *)
(***************************************************************************)
C30_DispatchOnlyIfClassifiedScam ==
    \A f \in pending : f.payload # <<>> => ClassifiedScam(heap[f.obj])

(***************************************************************************)
(* The flow of /api/honeypot on one id with messages that all match cues,  *)
(* the generative capability absent, under the configured ceiling and     *)
(* under a ceiling that the last message of the run reaches.               *)
(***************************************************************************)
MaxMessages == 5     \* inbound messages in a run
max_messages_per_session == 20

ScamTexts == {TPrize, TFull}
ScenarioCeilings == {2 * MaxMessages - 2, max_messages_per_session}

ScenarioInit ==
    /\ settings \in [max_messages_per_session : ScenarioCeilings,
                     session_timeout_seconds : TimeoutChoices,
                     min_messages_for_callback : {min_messages_for_callback}]
    /\ sessions = <<>>
    /\ heap = <<>>
    /\ running = Idle
    /\ pending = {}
    /\ posts = <<>>
    /\ now = 0
    /\ accepted = 0

ScenarioBegin(sid, text) ==
    /\ accepted < MaxMessages
    /\ accepted' = accepted + 1
    /\ Receive("honeypot", sid, text, NoLlmIntel)

ScenarioNext ==
    \/ \E sid \in SessionIds, text \in ScamTexts : ScenarioBegin(sid, text)
    \/ \E rnd \in Rnd : Terminate(rnd)
    \/ SendCallback
    \/ \E frame \in pending, outcome \in CallbackOutcomes : CallbackResult(frame, outcome)
    \/ DeleteSession
    \/ \E rnd \in Rnd : GenerateReply("", rnd)
    \/ AddReply
    \/ Return
    \/ Cleanup
    \/ Tick

ScenarioSpec == ScenarioInit /\ [][ScenarioNext]_vars

\* the number of inbound turns of the session
Inbound(s) ==
    Cardinality({i \in 1..Len(s.conversation_history) :
                    s.conversation_history[i].role = "scammer"})

\* scammer, agent, scammer, agent, ...
Alternating(history) ==
    \A i \in 1..Len(history) :
       history[i].role = IF i % 2 = 1 THEN "scammer" ELSE "agent"

(***************************************************************************)
(* C31.  Each inbound message that does not terminate the session appends  *)
(* two turns, the scammer's then the agent's, and leaves the session in    *)
(* the store: between requests a stored session with k inbound messages    *)
(* has turn count 2k and alternating speakers, and after four messages     *)
(* that match cues it passes both gating conditions.                       *)
(***************************************************************************)
C31_TwoTurnsPerMessage ==
    [][/\ (running.pc = "respond" /\ heap[running.obj].is_active /\ running' = Idle) =>
             /\ running.sid \in DOMAIN sessions'
             /\ sessions'[running.sid] = running.obj
       /\ (running' = Idle /\ pending' = {}) =>
             \A sid \in DOMAIN sessions' :
                LET s == heap'[sessions'[sid]]
                IN  /\ s.is_active
                    /\ s.message_count = 2 * Inbound(s)
                    /\ Len(s.conversation_history) = s.message_count
                    /\ Alternating(s.conversation_history)
                    /\ Inbound(s) >= 4 => GatingConditions(s)]_vars

\* four messages answered, eight turns, the session stored and eligible
C31_Witness ==
    /\ running = Idle
    /\ \E sid \in DOMAIN sessions :
          /\ Inbound(heap[sessions[sid]]) = 4
          /\ heap[sessions[sid]].message_count = 8
          /\ accepted = 4

(***************************************************************************)
(* ScamDetector.detect called directly: on every combination of match      *)
(* counts of the seven categories, and on the texts of the catalogue.      *)
(***************************************************************************)
MatchCounts == [Intents -> 0..4]

CallDetect(matches) ==
    /\ running = Idle
    /\ running' = [pc |-> "detect", matches |-> matches,
                   result |-> detect_matches(matches)]
    /\ UNCHANGED <<settings, sessions, heap, pending, posts, now, accepted>>

CallDetectText(message) ==
    /\ running = Idle
    /\ running' = [pc |-> "detect", matches |-> CueMatches(message),
                   result |-> detect(message)]
    /\ UNCHANGED <<settings, sessions, heap, pending, posts, now, accepted>>

DetectReturned ==
    /\ running.pc = "detect"
    /\ running' = Idle
    /\ UNCHANGED <<settings, sessions, heap, pending, posts, now, accepted>>

DetectNext ==
    \/ running = Idle /\ \E matches \in MatchCounts : CallDetect(matches)
    \/ \E message \in Catalogue : CallDetectText(message)
    \/ DetectReturned

DetectSpec == Init /\ [][DetectNext]_vars

\* the categories with at least one matching cue
Matched(matches) == {i \in Intents : matches[i] > 0}

(***************************************************************************)
(* C32.  When no category has a matching cue detect returns is_scam false, *)
(* the intents [NONE] and confidence 0; otherwise it returns exactly the   *)
(* categories with a matching cue, each once and never NONE.  The result   *)
(* is a function of the input.                                             *)
(***************************************************************************)
C32_NoneOrMatchedCategories ==
    running.pc = "detect" =>
       LET r == running.result
           matched == Matched(running.matches)
       IN  /\ matched = {} =>
                /\ r.is_scam = FALSE
                /\ r.scam_intents = <<NONE>>
                /\ r.confidence = 0
           /\ matched # {} =>
                /\ Range(r.scam_intents) = matched
                /\ NoDuplicates(r.scam_intents)
                /\ NONE \notin Range(r.scam_intents)
           /\ \A message \in Catalogue :
                 CueMatches(message) = running.matches => detect(message) = r

\* the plain greeting of the tests: nothing matches
C32_Witness ==
    /\ running.pc = "detect"
    /\ running.matches = CueMatches(THello)
    /\ running.result.scam_intents = <<NONE>>

(***************************************************************************)
(* C33.  The confidence is the mean of matches/len(patterns) over the      *)
(* detected categories only, times 1.2 and capped at 1 when more than one  *)
(* category is detected; it lies in [0, 1]; is_scam holds exactly when the *)
(* confidence exceeds 0.3.                                                 *)
(***************************************************************************)
C33_ConfidenceIsCappedMean ==
    running.pc = "detect" =>
       LET r == running.result
           matched == Matched(running.matches)
           n == Cardinality(matched)
           \* 4 * n * mean: the categories with no match add nothing
           total == SumSeq([k \in 1..Len(IntentOrder) |-> running.matches[IntentOrder[k]]])
       IN  /\ 0 <= r.confidence /\ r.confidence <= ConfidenceScale
           /\ r.is_scam <=> (10 * r.confidence > 3 * ConfidenceScale)
           /\ n = 1 => 4 * r.confidence = total * ConfidenceScale
           /\ n > 1 =>
                IF 12 * total >= 40 * n
                THEN r.confidence = ConfidenceScale
                ELSE 40 * n * r.confidence = 12 * total * ConfidenceScale

\* the boost lifts two categories with one cue each to exactly 0.3, which is
\* not above the threshold
C33_Witness ==
    /\ running.pc = "detect"
    /\ Cardinality(Matched(running.matches)) = 2
    /\ 10 * running.result.confidence = 3 * ConfidenceScale
    /\ ~running.result.is_scam

\* the call is answered by _fallback_reply: no meta-question, and no
\* generative reply of more than two characters
FallbackCall ==
    /\ running.pc = "generate_reply"
    /\ ~is_suspicious(running.message)
    /\ ~(running.has_session /\ StrippedLength(running.llm_reply) > 2)

HasAny(scam_intents, labels) == Range(scam_intents) \cap labels # {}

GenericPools == Range(CURIOUS_RESPONSES) \cup Range(ENGAGEMENT_RESPONSES)

(***************************************************************************)
(* C34, as stated.  In the fallback for turns 4-8 a payment-probing reply  *)
(* is returned only when financial_fraud or upi_scam is among the intents; *)
(* without them the reply is from the curiosity or engagement pool.        *)
(***************************************************************************)
C34_ProbingOnlyForFinancialOrPayment ==
    (FallbackCall /\ running.message_count \in 4..8) =>
       LET financial == HasAny(running.scam_intents, {"financial_fraud", "upi_scam"})
       IN  /\ running.reply \in Range(FINANCIAL_RESPONSES) => financial
           /\ ~financial => running.reply \in GenericPools

(***************************************************************************)
(* C34, amended.  In the fallback for turns 4-8 a payment-probing reply is *)
(* returned only when financial_fraud, upi_scam or fake_prize is among the *)
(* intents; with none of the three the reply is from the curiosity or      *)
(* engagement pool.                                                        *)
(***************************************************************************)
C34_ProbingOnlyForListedIntents ==
    (FallbackCall /\ running.message_count \in 4..8) =>
       LET financial == HasAny(running.scam_intents,
                               {"financial_fraud", "upi_scam", "fake_prize"})
       IN  /\ running.reply \in Range(FINANCIAL_RESPONSES) => financial
           /\ ~financial => running.reply \in GenericPools
           /\ running.reply \in Range(FINANCIAL_RESPONSES) \cup GenericPools

\* a payment-probing reply for a session whose only intent is fake_prize
C34_Witness ==
    /\ FallbackCall
    /\ running.message_count \in 4..8
    /\ running.scam_intents = <<"fake_prize">>
    /\ running.reply \in Range(FINANCIAL_RESPONSES)

\* the pools of the tier a turn count falls into, given the intents
TierPools(scam_intents, message_count) ==
    IF message_count = 0 THEN Range(INITIAL_RESPONSES)
    ELSE IF message_count \in 1..3 THEN
        IF HasAny(scam_intents, {"fake_prize"}) THEN Range(PRIZE_RESPONSES)
        ELSE IF HasAny(scam_intents, {"job_scam"}) THEN Range(JOB_RESPONSES)
        ELSE Range(CURIOUS_RESPONSES)
    ELSE IF message_count \in 4..8 THEN Range(FINANCIAL_RESPONSES) \cup GenericPools
    ELSE IF message_count \in 9..15
    THEN Range(STALLING_RESPONSES) \cup Range(FINANCIAL_RESPONSES)
    ELSE Range(VERY_LATE_RESPONSES)

(***************************************************************************)
(* C35.  The fallback picks its pool from the intents and the turn count   *)
(* alone: turn 0 the opening pool; turns 1-3 the prize pool if fake_prize  *)
(* is present, else the job pool if job_scam is present, else the          *)
(* curiosity pool; turns 9-15 the stalling or the payment-probing pool;    *)
(* from turn 16 on the very-late pool.  Every turn count has one tier, and *)
(* the random draws choose only within it.                                 *)
(***************************************************************************)
C35_PoolFromIntentsAndTurn ==
    FallbackCall =>
       /\ running.message_count >= 0
       /\ running.reply \in TierPools(running.scam_intents, running.message_count)
       /\ \A rnd \in ReplyRnd :
             _fallback_reply(running.scam_intents, running.message_count, rnd)
                \in TierPools(running.scam_intents, running.message_count)

\* both labels present early in the conversation: the prize pool wins
C35_Witness ==
    /\ FallbackCall
    /\ running.scam_intents = <<"fake_prize", "job_scam">>
    /\ running.message_count = 3
    /\ running.reply \in Range(PRIZE_RESPONSES)

(***************************************************************************)
(* C36.  should_terminate has no side effect: whatever it returns, a call  *)
(* leaves the session's status, reason, turns, turn count, last activity,  *)
(* intents and intelligence as they were, and the store too.               *)
(***************************************************************************)
C36_EvaluationChangesNothing ==
    [][running'.pc = "should_terminate" =>
          /\ heap' = heap
          /\ sessions' = sessions
          /\ \A a \in DOMAIN heap :
                /\ heap'[a].is_active = heap[a].is_active
                /\ heap'[a].termination_reason = heap[a].termination_reason
                /\ heap'[a].conversation_history = heap[a].conversation_history
                /\ heap'[a].message_count = heap[a].message_count
                /\ heap'[a].last_activity = heap[a].last_activity
                /\ heap'[a].scam_intents = heap[a].scam_intents
                /\ heap'[a].intelligence = heap[a].intelligence]_vars

\* the evaluation said true, for the ceiling, and the session is still active
C36_Witness ==
    /\ running.pc = "should_terminate"
    /\ Returned = <<TRUE, "max_messages_reached">>
    /\ heap[running.obj].is_active
    /\ heap[running.obj].termination_reason = None
    /\ heap[running.obj].conversation_history # <<>>

(***************************************************************************)
(* The flow of /api/honeypot, one request at a time, with requests whose   *)
(* detection and extraction take time: the enrichment call blocks between  *)
(* the append of the inbound turn and the termination check.               *)
(***************************************************************************)
MaxElapsed == 2      \* a request spends 0..MaxElapsed between append and check

\* a ceiling the second message reaches and one the run never reaches
LatencyCeilings == {MaxCeiling, 2 * MaxRequests}

LatencyInit ==
    /\ settings \in [max_messages_per_session : LatencyCeilings,
                     session_timeout_seconds : TimeoutChoices,
                     min_messages_for_callback : {min_messages_for_callback}]
    /\ sessions = <<>>
    /\ heap = <<>>
    /\ running = Idle
    /\ pending = {}
    /\ posts = <<>>
    /\ now = 0
    /\ accepted = 0

LatencyBegin(sid, text, elapsed) ==
    /\ pending = {}
    /\ accepted < MaxRequests
    /\ accepted' = accepted + 1
    /\ Handle("honeypot", sid, text, NoLlmIntel, elapsed)

LatencyNext ==
    \/ \E sid \in SessionIds, text \in InboundTexts, elapsed \in 0..MaxElapsed :
          LatencyBegin(sid, text, elapsed)
    \/ \E rnd \in Rnd : Terminate(rnd)
    \/ SendCallback
    \/ \E frame \in pending, outcome \in CallbackOutcomes : CallbackResult(frame, outcome)
    \/ DeleteSession
    \/ \E rnd \in Rnd : GenerateReply("", rnd)
    \/ AddReply
    \/ Return
    \/ pending = {} /\ Cleanup
    \/ Tick

LatencySpec == LatencyInit /\ [][LatencyNext]_vars

ContextualReplies(s) ==
    Cardinality({i \in 1..Len(s.conversation_history) :
                    /\ s.conversation_history[i].role = "agent"
                    /\ ~IsGoodbye(s.conversation_history[i])})

(***************************************************************************)
(* C38.  With requests processed one at a time, the inbound message whose  *)
(* turn brings the turn count to the ceiling or above terminates the       *)
(* session.  So a session in the store between requests                    *)
(* is active with a turn count of at most the ceiling, and with ceiling N  *)
(* a session gets at most ceil(N/2) contextual replies before the goodbye. *)
(***************************************************************************)
C38_TerminatedAtCeiling ==
    /\ (running.pc = "checked" /\ AtCeiling(heap[running.obj])) =>
          /\ running.should_terminate
          /\ running.termination_reason = "max_messages_reached"
    /\ (running = Idle /\ pending = {}) =>
          \A sid \in DOMAIN sessions :
             /\ heap[sessions[sid]].is_active
             /\ heap[sessions[sid]].message_count <= settings.max_messages_per_session
    /\ \A a \in DOMAIN heap :
          2 * ContextualReplies(heap[a]) <= settings.max_messages_per_session + 1

\* the message that reaches the ceiling, after one contextual reply
C38_Witness ==
    /\ running.pc = "checked"
    /\ running.should_terminate
    /\ AtCeiling(heap[running.obj])
    /\ ContextualReplies(heap[running.obj]) = 1
    /\ settings.max_messages_per_session = 2

\* the step is the start of a request that finds its id absent from the store
CreatesSession ==
    /\ running = Idle
    /\ running'.pc = "checked"
    /\ running'.sid \notin DOMAIN sessions

(***************************************************************************)
(* C39.  When a terminating request has completed, its session id is not   *)
(* in the store; the next inbound message with that id creates a new,      *)
(* active session that holds this message's turn, intents, confidence      *)
(* sample and intelligence and nothing of the terminated session.          *)
(***************************************************************************)
C39_FreshSessionAfterTermination ==
    [][/\ (running.pc = "respond" /\ running.obj \in DOMAIN heap
              /\ ~heap[running.obj].is_active) =>
             /\ running.sid \notin DOMAIN sessions
             /\ running.sid \notin DOMAIN sessions'
       /\ CreatesSession =>
             LET s == heap'[running'.obj]
                 d == detect(running'.text)
             IN  /\ running'.obj \notin DOMAIN heap
                 /\ sessions'[running'.sid] = running'.obj
                 /\ s.session_id = running'.sid
                 /\ s.is_active
                 /\ s.termination_reason = None
                 /\ s.message_count = 1
                 /\ s.conversation_history =
                       <<[role |-> "scammer", content |-> running'.text]>>
                 /\ Range(s.scam_intents) = Range(d.scam_intents) \ {NONE}
                 /\ s.confidence_scores = <<d.confidence>>
                 /\ \A f \in IntelFields :
                       Range(s.intelligence[f]) = Range(running'.intel_report[f])]_vars

\* the ceiling is 1: the first request terminated its session and completed,
\* the second one finds the id absent and starts a session of its own
C39_Witness ==
    /\ settings.max_messages_per_session = 1
    /\ accepted = 2
    /\ now = 0
    /\ pending = {}
    /\ running.pc = "checked"
    /\ running.text = TLonely
    /\ heap[running.obj].scam_intents = <<"romance_scam">>
    /\ heap[running.obj].message_count = 1

=============================================================================
